---- MODULE Spec2Model ----
(***************************************************************************)
(* Ancient Sunspot: the N-body physics kernel (updatePhysics), the         *)
(* spaceship thrust controls (updatePilotControls) and the pilot-mode      *)
(* state of the three builds: src/main.js, src/solar-realistic/main.js and *)
(* src/solar-compact/main.js.                                              *)
(*                                                                         *)
(* Numbers.  A JavaScript number is modelled exactly, as a reduced         *)
(* fraction <<n, d>> with d > 0, or as one of Infinity, -Infinity and NaN  *)
(* with the arithmetic IEEE 754 gives them.  A finite value exact          *)
(* arithmetic cannot hold in bounded machine integers (an irrational root, *)
(* a numerator beyond IntLimit) is the marker UNREP, which the operations  *)
(* propagate; a step whose result holds UNREP is not taken, so every state *)
(* explored is what exact arithmetic gives.  Zero has no sign: the only    *)
(* divisors that can be zero here (a squared distance, a sum of masses or  *)
(* of their inverses) are +0.                                              *)
(*                                                                         *)
(* Vectors.  THREE.Vector3 is modelled in the ecliptic plane, <<x, z>>:    *)
(* every body the builds create through the pointer lies in the plane      *)
(* y = 0 with a velocity in that plane.                                    *)
(***************************************************************************)
EXTENDS Integers, Sequences, FiniteSets, TLC

\* ---------------------------------------------------------------- bounds
IntLimit == 1000000000   \* largest numerator or denominator kept exactly
MaxBodies == 3           \* bodies in the registry
MaxCoord == 3            \* initial x coordinates are 0..MaxCoord
MaxSteps == 2            \* updatePhysics calls in one behaviour
MaxFrames == 2           \* animate() calls in one behaviour
MaxListeners == 2        \* pending and registered placeShip closures

\* ------------------------------------------------------ exact arithmetic
Abs(x) == IF x < 0 THEN -x ELSE x
Sgn(x) == IF x > 0 THEN 1 ELSE IF x < 0 THEN -1 ELSE 0

RECURSIVE GCD(_, _)
GCD(a, b) == IF b = 0 THEN a ELSE GCD(b, a % b)

UNREP == <<0, 0>>
PINF == <<1, 0>>     \* Infinity
NINF == <<-1, 0>>    \* -Infinity
NAN == <<2, 0>>      \* NaN

\* a is a fraction
IsRep(a) == a[2] # 0

MulFits(a, b) == a = 0 \/ b = 0 \/ Abs(a) <= IntLimit \div Abs(b)

\* the fraction n/d (d > 0) if it fits
Fits(n, d) == IF Abs(n) <= IntLimit /\ d <= IntLimit THEN <<n, d>> ELSE UNREP

\* n/d (d > 0) divided through by g
Reduced(n, d, g) == Fits(n \div g, d \div g)

\* the reduced fraction n/d (d # 0), or UNREP when it does not fit
Rat(n, d) ==
    IF d < 0 THEN Reduced(-n, -d, GCD(Abs(n), -d))
    ELSE Reduced(n, d, GCD(Abs(n), d))

R(n) == <<n, 1>>
R0 == R(0)
R1 == R(1)

RNeg(a) == IF a = NAN THEN NAN ELSE <<-a[1], a[2]>>

\* a*ka/ka + b*kb/kb over the common denominator
AddScaled(a, b, ka, kb) ==
    IF MulFits(a[1], ka) /\ MulFits(b[1], kb) /\ MulFits(a[2], ka)
    THEN Rat(a[1] * ka + b[1] * kb, a[2] * ka)
    ELSE UNREP

AddOver(a, b, g) == AddScaled(a, b, b[2] \div g, a[2] \div g)

RAdd(a, b) ==
    IF a = NAN \/ b = NAN THEN NAN
    ELSE IF a = UNREP \/ b = UNREP THEN UNREP
    ELSE IF ~IsRep(a) THEN (IF IsRep(b) \/ b = a THEN a ELSE NAN)
    ELSE IF ~IsRep(b) THEN b
    ELSE AddOver(a, b, GCD(a[2], b[2]))

RSub(a, b) == RAdd(a, RNeg(b))

MulParts(n1, n2, d1, d2) ==
    IF MulFits(n1, n2) /\ MulFits(d1, d2) THEN <<n1 * n2, d1 * d2>> ELSE UNREP

MulOver(a, b, g1, g2) ==
    MulParts(a[1] \div g1, b[1] \div g2, a[2] \div g2, b[2] \div g1)

\* a finite number times 0 is 0, also when the number is not held exactly
RMul(a, b) ==
    IF a = NAN \/ b = NAN THEN NAN
    ELSE IF a \in {PINF, NINF} \/ b \in {PINF, NINF}
    THEN (IF a = R0 \/ b = R0 THEN NAN
          ELSE IF a = UNREP \/ b = UNREP THEN UNREP
          ELSE <<Sgn(a[1]) * Sgn(b[1]), 0>>)
    ELSE IF a = R0 \/ b = R0 THEN R0
    ELSE IF a = UNREP \/ b = UNREP THEN UNREP
    ELSE MulOver(a, b, GCD(Abs(a[1]), b[2]), GCD(Abs(b[1]), a[2]))

\* 1/a: 1/0 is Infinity, 1/Infinity is 0
RInv(a) ==
    IF a \in {NAN, UNREP} THEN a
    ELSE IF ~IsRep(a) THEN R0
    ELSE IF a[1] = 0 THEN PINF
    ELSE <<Sgn(a[1]) * a[2], Abs(a[1])>>

RDiv(a, b) == RMul(a, RInv(b))

\* Math.floor
Floor(a) == a[1] \div a[2]

\* whether the order of a and b can be decided within the machine integers
Comparable(a, b) ==
    /\ a # UNREP
    /\ b # UNREP
    /\ \/ ~IsRep(a)
       \/ ~IsRep(b)
       \/ a = b
       \/ Floor(a) # Floor(b)
       \/ MulFits(a[1], b[2]) /\ MulFits(b[1], a[2])

\* a < b, for comparable a and b: false when either is NaN
RLt(a, b) ==
    IF a = NAN \/ b = NAN \/ a = b THEN FALSE
    ELSE IF a = NINF \/ b = PINF THEN TRUE
    ELSE IF a = PINF \/ b = NINF THEN FALSE
    ELSE IF Floor(a) # Floor(b) THEN Floor(a) < Floor(b)
    ELSE a[1] * b[2] < b[1] * a[2]
RAbs(a) == IF a = NAN THEN NAN ELSE <<Abs(a[1]), a[2]>>

\* Math.min, Math.max
RMin(a, b) == IF a = NAN \/ b = NAN THEN NAN ELSE IF RLt(b, a) THEN b ELSE a
RMax(a, b) == IF a = NAN \/ b = NAN THEN NAN ELSE IF RLt(a, b) THEN b ELSE a

\* the largest k in lo..hi with k*k <= n (lo*lo <= n)
RECURSIVE SqrtSearch(_, _, _)
SqrtSearch(n, lo, hi) ==
    IF lo >= hi THEN lo
    ELSE IF ((lo + hi + 1) \div 2) * ((lo + hi + 1) \div 2) <= n
    THEN SqrtSearch(n, (lo + hi + 1) \div 2, hi)
    ELSE SqrtSearch(n, lo, ((lo + hi + 1) \div 2) - 1)

ISqrt(n) == SqrtSearch(n, 0, IF n < 31622 THEN n ELSE 31622)

ExactRoot(a, rn, rd) ==
    IF rn * rn = a[1] /\ rd * rd = a[2] THEN <<rn, rd>> ELSE UNREP

\* Math.sqrt: exact, or UNREP when irrational; NaN below 0
RSqrt(a) ==
    IF a \in {NAN, UNREP, PINF} THEN a
    ELSE IF a[1] < 0 THEN NAN
    ELSE ExactRoot(a, ISqrt(a[1]), ISqrt(a[2]))

\* the largest k in lo..hi with k*k*k <= n (lo*lo*lo <= n)
RECURSIVE CbrtSearch(_, _, _)
CbrtSearch(n, lo, hi) ==
    IF lo >= hi THEN lo
    ELSE IF ((lo + hi + 1) \div 2) * ((lo + hi + 1) \div 2) * ((lo + hi + 1) \div 2) <= n
    THEN CbrtSearch(n, (lo + hi + 1) \div 2, hi)
    ELSE CbrtSearch(n, lo, ((lo + hi + 1) \div 2) - 1)

ICbrt(n) == CbrtSearch(n, 0, IF n < 1000 THEN n ELSE 1000)

ExactCubeRoot(a, rn, rd) ==
    IF rn * rn * rn = Abs(a[1]) /\ rd * rd * rd = a[2]
    THEN <<Sgn(a[1]) * rn, rd>>
    ELSE UNREP

\* Math.cbrt: exact, or UNREP when irrational
RCbrt(a) ==
    IF ~IsRep(a) THEN a ELSE ExactCubeRoot(a, ICbrt(Abs(a[1])), ICbrt(a[2]))

\* parseFloat(text) || fallback: 0 and NaN are falsy
parseOr(x, fallback) == IF x = R0 \/ x = NAN THEN fallback ELSE x

\* ---------------------------------------------------------- THREE.Vector3
ZeroVec == <<R0, R0>>
VecRep(v) == v[1] # UNREP /\ v[2] # UNREP

subVectors(a, b) == <<RSub(a[1], b[1]), RSub(a[2], b[2])>>
add(v, w) == <<RAdd(v[1], w[1]), RAdd(v[2], w[2])>>
sub(v, w) == <<RSub(v[1], w[1]), RSub(v[2], w[2])>>
multiplyScalar(v, s) == <<RMul(v[1], s), RMul(v[2], s)>>
dot(v, w) == RAdd(RMul(v[1], w[1]), RMul(v[2], w[2]))

\* Vector3.length(): Math.sqrt(x*x + z*z)
length(v) ==
    IF v[2] = R0 THEN RAbs(v[1])
    ELSE IF v[1] = R0 THEN RAbs(v[2])
    ELSE RSqrt(RAdd(RMul(v[1], v[1]), RMul(v[2], v[2])))

\* Vector3.divideScalar(s): multiplyScalar(1 / s)
divideScalar(v, s) == multiplyScalar(v, RInv(s))

\* divideScalar(len || 1): 0 and NaN are falsy
divideByLength(v, len) ==
    IF len = UNREP THEN <<UNREP, UNREP>>
    ELSE divideScalar(v, IF len = R0 \/ len = NAN THEN R1 ELSE len)

\* Vector3.normalize(): divideScalar(length() || 1)
normalize(v) == divideByLength(v, length(v))

\* ------------------------------------------------------- configuration
Variants == {"main", "realistic", "compact"}

\* CONFIG.G
CONFIG_G(v) == IF v = "compact" THEN Rat(1, 10) ELSE Rat(15, 1000000)

\* CONFIG.dt
CONFIG_dt(v) ==
    IF v = "main" THEN Rat(1, 10)
    ELSE IF v = "realistic" THEN Rat(5, 100)
    ELSE Rat(3, 1000)

\* a frame that makes one updatePhysics call in every build
oneCallPerFrame(v) == 1

\* updatePhysics calls of one animate(): main.js and solar-realistic run 10
\* sub-steps, solar-compact one step
subSteps(v) == IF v = "compact" THEN 1 ELSE 10

\* the time-scale slider runs from 0 to 100
TimeScales == {0, 1, 100}

\* the values the slider is moved between while the page runs
SliderScales == {0, 1}

\* the dt animate() hands to updatePhysics: CONFIG.dt * state.timeScale /
\* subSteps (CONFIG.dt * state.timeScale in solar-compact)
stepDt(v, ts) == RDiv(RMul(CONFIG_dt(v), R(ts)), R(subSteps(v)))

\* a perfectly elastic collision
perfectlyElastic == R1

restitution == Rat(95, 100)

speedOfLight == 638

\* maxSpeed = speedOfLight * 0.99999
maxSpeed == RMul(R(speedOfLight), Rat(99999, 100000))

\* the speed cap is in main.js and solar-realistic/main.js only
hasSpeedCap(v) == v # "compact"

\* the thrust change of one control tick while W or S is held
thrustIncrement(v) == IF v = "realistic" THEN Rat(5, 100) ELSE Rat(1, 10)

thrustDecay == Rat(95, 100)

\* the radius placeShip gives the spaceship
shipRadius(v) == IF v = "realistic" THEN Rat(5, 1000) ELSE Rat(1, 2)

\* --------------------------------------------------------------- bodies
NULL == 0

\* new Body(name, mass, radius, color, position, velocity)
Body(name, mass, radius, position, velocity) ==
    [name |-> name, mass |-> mass, radius |-> radius,
     position |-> position, velocity |-> velocity, force |-> ZeroVec,
     isShip |-> FALSE, maxThrust |-> R0, currentThrust |-> R0,
     forward |-> ZeroVec]

\* new Spaceship(name, mass, radius, color, position, velocity, maxThrust)
Spaceship(name, mass, radius, position, velocity, maxThrust) ==
    [Body(name, mass, radius, position, velocity) EXCEPT
        !.isShip = TRUE, !.maxThrust = maxThrust, !.currentThrust = R0,
        !.forward = <<R0, R(-1)>>]

\* -------------------------------------------------------- updatePhysics
\* the objects are a heap h: identity -> fields; state.bodies is a sequence
\* of identities and state.spaceship an identity or NULL
InRegistry(bodies, o) == \E k \in 1..Len(bodies) : bodies[k] = o

\* a step that zeroes no accumulator
keepForces(h, bodies) == h

\* "Reset forces": body.force.set(0, 0, 0) for every body of state.bodies
resetForces(h, bodies) ==
    [o \in DOMAIN h |->
        IF InRegistry(bodies, o) THEN [h[o] EXCEPT !.force = ZeroVec] ELSE h[o]]

\* Spaceship.applyThrust(): force.add(forward.clone().multiplyScalar(currentThrust))
applyThrust(ship) ==
    [ship EXCEPT !.force = add(ship.force, multiplyScalar(ship.forward, ship.currentThrust))]

\* a thrust phase that asks for a spaceship only
thrustWheneverShip(h, pilotMode, spaceship) ==
    IF spaceship # NULL
    THEN [h EXCEPT ![spaceship] = applyThrust(h[spaceship])]
    ELSE h

\* if (state.pilotMode && state.spaceship) state.spaceship.applyThrust()
thrustPhase(h, pilotMode, spaceship) ==
    IF pilotMode /\ spaceship # NULL
    THEN [h EXCEPT ![spaceship] = applyThrust(h[spaceship])]
    ELSE h

\* a pair loop without the collision branch
neverCollides(bodyA, bodyB, distance) == FALSE

\* if (distance < bodyA.radius + bodyB.radius)
collides(bodyA, bodyB, distance) == RLt(distance, RAdd(bodyA.radius, bodyB.radius))

\* moveA = overlap * (bodyB.mass / totalMass): the share of the one body is
\* the mass of the other over the total
moveShare(overlap, otherMass, totalMass) == RMul(overlap, RDiv(otherMass, totalMass))

\* a collision branch that resolves the velocities of every overlapping pair
neverSeparating(velocityAlongNormal) == FALSE

\* if (velocityAlongNormal > 0) continue
separating(velocityAlongNormal) == RLt(R0, velocityAlongNormal)

\* -(1 + restitution) * velocityAlongNormal / (1 / bodyA.mass + 1 / bodyB.mass)
impulseScalar(velocityAlongNormal, massA, massB) ==
    RDiv(RMul(RNeg(RAdd(R1, restitution)), velocityAlongNormal),
         RAdd(RInv(massA), RInv(massB)))

\* (CONFIG.G * bodyA.mass * bodyB.mass) / (distance * distance)
forceMagnitude(G, massA, massB, distance) ==
    RDiv(RMul(RMul(G, massA), massB), RMul(distance, distance))

\* bodyA.velocity.sub(impulse / bodyA.mass); bodyB.velocity.add(impulse / bodyB.mass)
applyImpulse(bodyA, bodyB, impulse) ==
    [kind |-> "collision",
     A |-> [bodyA EXCEPT !.velocity = sub(bodyA.velocity, divideScalar(impulse, bodyA.mass))],
     B |-> [bodyB EXCEPT !.velocity = add(bodyB.velocity, divideScalar(impulse, bodyB.mass))]]

\* "Elastic collision response" on the corrected bodies: nothing more when
\* they are separating, else the impulse along the normal
collisionResponse(bodyA, bodyB, normal, velocityAlongNormal) ==
    IF ~Comparable(R0, velocityAlongNormal)
    THEN [kind |-> "collision",
          A |-> [bodyA EXCEPT !.position = <<UNREP, UNREP>>], B |-> bodyB]
    ELSE IF separating(velocityAlongNormal)
    THEN [kind |-> "separating", A |-> bodyA, B |-> bodyB]
    ELSE applyImpulse(bodyA, bodyB,
             multiplyScalar(normal,
                 impulseScalar(velocityAlongNormal, bodyA.mass, bodyB.mass)))

\* "Separate bodies to prevent overlap", then the response
separateBodies(bodyA, bodyB, overlap, separationDirection, totalMass) ==
    collisionResponse(
        [bodyA EXCEPT !.position =
            sub(bodyA.position,
                multiplyScalar(separationDirection,
                               moveShare(overlap, bodyB.mass, totalMass)))],
        [bodyB EXCEPT !.position =
            add(bodyB.position,
                multiplyScalar(separationDirection,
                               moveShare(overlap, bodyA.mass, totalMass)))],
        separationDirection,
        dot(subVectors(bodyB.velocity, bodyA.velocity), separationDirection))

\* the collision branch of a pair
collisionBranch(bodyA, bodyB, rVector, distance) ==
    separateBodies(bodyA, bodyB,
                   RSub(RAdd(bodyA.radius, bodyB.radius), distance),
                   normalize(rVector), RAdd(bodyA.mass, bodyB.mass))

\* a gravity branch that pulls the first body only
applyForceToFirst(bodyA, bodyB, force) ==
    [kind |-> "gravity",
     A |-> [bodyA EXCEPT !.force = add(bodyA.force, force)],
     B |-> bodyB]

\* bodyA.force.add(force); bodyB.force.sub(force)
applyForce(bodyA, bodyB, force) ==
    [kind |-> "gravity",
     A |-> [bodyA EXCEPT !.force = add(bodyA.force, force)],
     B |-> [bodyB EXCEPT !.force = sub(bodyB.force, force)]]

\* the gravity branch of a pair
gravityBranch(bodyA, bodyB, rVector, distance, G) ==
    applyForce(bodyA, bodyB,
               multiplyScalar(normalize(rVector),
                              forceMagnitude(G, bodyA.mass, bodyB.mass, distance)))

\* the branch the pair takes
pairBranch(bodyA, bodyB, rVector, distance, G) ==
    IF ~Comparable(distance, RAdd(bodyA.radius, bodyB.radius))
    THEN [kind |-> "gravity",
          A |-> [bodyA EXCEPT !.position = <<UNREP, UNREP>>], B |-> bodyB]
    ELSE IF collides(bodyA, bodyB, distance)
    THEN collisionBranch(bodyA, bodyB, rVector, distance)
    ELSE gravityBranch(bodyA, bodyB, rVector, distance, G)

\* the objects after the pair, and the pair as it was processed: what it
\* read of the two objects and what it left in them
pairDone(st, i, j, a, b, out) ==
    [h |-> [st.h EXCEPT ![a] = out.A, ![b] = out.B],
     events |-> Append(st.events,
         [i |-> i, j |-> j, a |-> a, b |-> b, kind |-> out.kind,
          readA |-> st.h[a], readB |-> st.h[b],
          wroteA |-> out.A, wroteB |-> out.B])]

pairOf(st, i, j, a, b, rVector, G) ==
    pairDone(st, i, j, a, b,
             pairBranch(st.h[a], st.h[b], rVector, length(rVector), G))

\* the body of the double loop for the pair (i, j) of registry indices
pairInteraction(st, bodies, i, j, G) ==
    pairOf(st, i, j, bodies[i], bodies[j],
           subVectors(st.h[bodies[j]].position, st.h[bodies[i]].position), G)

\* for (i = 0; i < n; i++) for (j = i + 1; j < n; j++)
RECURSIVE pairLoop(_, _, _, _, _)
pairLoop(st, bodies, i, j, G) ==
    IF i > Len(bodies) THEN st
    ELSE IF j > Len(bodies) THEN pairLoop(st, bodies, i + 1, i + 2, G)
    ELSE pairLoop(pairInteraction(st, bodies, i, j, G), bodies, i, j + 1, G)

\* an integration without the speed limit
noClamp(velocity, currentSpeed) == velocity

\* if (currentSpeed > maxSpeed) velocity.normalize().multiplyScalar(maxSpeed)
clampSpeed(velocity, currentSpeed) ==
    IF ~Comparable(maxSpeed, currentSpeed) THEN <<UNREP, UNREP>>
    ELSE IF RLt(maxSpeed, currentSpeed)
    THEN multiplyScalar(normalize(velocity), maxSpeed)
    ELSE velocity

\* "Cap spaceship speed at 0.99999c"
capSpeed(velocity) == clampSpeed(velocity, length(velocity))

\* an integration that moves the body by the velocity it had before the call
advanceByOldVelocity(body, velocity, dt) ==
    [body EXCEPT !.velocity = velocity,
                 !.position = add(body.position, multiplyScalar(body.velocity, dt))]

\* body.position.add(body.velocity.clone().multiplyScalar(dt))
advance(body, velocity, dt) ==
    [body EXCEPT !.velocity = velocity,
                 !.position = add(body.position, multiplyScalar(velocity, dt))]

\* body.velocity.add(acceleration.multiplyScalar(dt)), for acceleration =
\* force / mass
accelerate(body, dt) ==
    add(body.velocity, multiplyScalar(divideScalar(body.force, body.mass), dt))

\* the body of the integration loop
integrateBody(body, isSpaceship, dt, v) ==
    IF hasSpeedCap(v) /\ isSpaceship
    THEN advance(body, capSpeed(accelerate(body, dt)), dt)
    ELSE advance(body, accelerate(body, dt), dt)

\* for (const body of state.bodies) { ... }
integrate(h, bodies, spaceship, dt, v) ==
    [o \in DOMAIN h |->
        IF InRegistry(bodies, o) THEN integrateBody(h[o], o = spaceship, dt, v)
        ELSE h[o]]

\* the heap a call was given, the heap and the pairs after the double loop,
\* and the heap the call left
phases(h, bodies, spaceship, pilotMode, v, dt, st) ==
    [dt |-> dt, bodies |-> bodies, spaceship |-> spaceship,
     pilotMode |-> pilotMode, pre |-> h, mid |-> st.h, events |-> st.events,
     post |-> integrate(st.h, bodies, spaceship, dt, v)]

\* updatePhysics(dt)
updatePhysics(h, bodies, spaceship, pilotMode, v, dt) ==
    phases(h, bodies, spaceship, pilotMode, v, dt,
           pairLoop([h |-> thrustPhase(resetForces(h, bodies), pilotMode, spaceship),
                     events |-> <<>>],
                    bodies, 1, 2, CONFIG_G(v)))

\* every number of every object is one the model holds
Representable(h) ==
    \A o \in DOMAIN h :
        /\ VecRep(h[o].position)
        /\ VecRep(h[o].velocity)
        /\ VecRep(h[o].force)
        /\ h[o].currentThrust # UNREP

\* -------------------------------------------------- updatePilotControls
\* a control tick without the limits
unboundedThrust(ship, keys, v) ==
    IF keys.w THEN RAdd(ship.currentThrust, Rat(1, 10))
    ELSE IF keys.s THEN RSub(ship.currentThrust, Rat(1, 10))
    ELSE RMul(ship.currentThrust, Rat(95, 100))

\* one control tick on the spaceship: W raises the thrust, S (without W)
\* lowers it, no key lets it decay
pilotThrust(ship, keys, v) ==
    IF keys.w
    THEN RMin(RAdd(ship.currentThrust, thrustIncrement(v)), ship.maxThrust)
    ELSE IF keys.s
    THEN RMax(RSub(ship.currentThrust, thrustIncrement(v)),
              RMul(RNeg(ship.maxThrust), Rat(1, 2)))
    ELSE RMul(ship.currentThrust, thrustDecay)

\* updatePilotControls(): returns at once unless piloting a spaceship
updatePilotControls(h, spaceship, pilotMode, keys, v) ==
    IF ~pilotMode \/ spaceship = NULL THEN h
    ELSE [h EXCEPT ![spaceship].currentThrust = pilotThrust(h[spaceship], keys, v)]

\* for (let i = 0; i < subSteps; i++) updatePhysics(stepDt): the calls made,
\* the first on the heap h and each other on the heap the one before it left
RECURSIVE subStepLoop(_, _, _, _, _, _, _, _)
subStepLoop(calls, h, n, bodies, spaceship, pilotMode, v, dt) ==
    IF n = 0 THEN calls
    ELSE subStepLoop(
             Append(calls,
                 updatePhysics(IF calls = <<>> THEN h ELSE calls[Len(calls)].post,
                               bodies, spaceship, pilotMode, v, dt)),
             h, n - 1, bodies, spaceship, pilotMode, v, dt)

\* ------------------------------------------------------------ the state
VARIABLES
    variant,     \* which build runs: its main.js
    heap,        \* the Body and Spaceship objects, by identity
    bodies,      \* state.bodies: the registry, a sequence of identities
    spaceship,   \* state.spaceship: an identity or NULL
    pilotMode,   \* state.pilotMode
    keys,        \* state.keys
    held,        \* the W and S keys as they physically are: down or up
    timeScale,   \* state.timeScale
    timers,      \* pending setTimeout(..., 50) callbacks of the pilot button
    listeners,   \* placeShip closures registered for the canvas click
    page,        \* the other variables of the page script: the spawn flags,
                 \* the pointer lock and the music
    frames,      \* animate() calls so far
    steps,       \* updatePhysics calls made outside animate() (SpecKernel)
    last         \* the updatePhysics calls the latest handler made, in order:
                 \* the phases of each

vars == <<variant, heap, bodies, spaceship, pilotMode, keys, held, timeScale,
          timers, listeners, page, frames, steps, last>>

\* (mass, radius) of spawned bodies: radius = Math.cbrt(mass) * 0.5
BodyKinds == {<<R(1), Rat(1, 2)>>, <<R(8), R(1)>>}

AxisPositions == {<<R(x), R0>> : x \in 0..MaxCoord}
PlanePositions == AxisPositions \cup {<<R(x), R(4)>> : x \in {0, MaxCoord}}

FastVelocities == {<<R(-800), R0>>}

\* the max-thrust slider values a ship is placed with
MaxThrusts == {Rat(3, 40)}

\* the thrust a piloted ship has reached when a step begins
Thrusts == {R0, Rat(1, 10)}

\* the body of placeShip: a Spaceship at the clicked point, at rest, facing
\* the sun at the origin (solar-compact leaves the default forward)
newShip(target, maxThrust, v) ==
    LET ship == Spaceship("Spaceship", R1, shipRadius(v), target, ZeroVec, maxThrust)
    IN  IF v = "compact" THEN ship
        ELSE [ship EXCEPT !.forward = normalize(subVectors(ZeroVec, target))]

HeapOf(reg) == [o \in 1..Len(reg) |-> reg[o]]
ShipOf(reg) ==
    IF \E o \in 1..Len(reg) : reg[o].isShip
    THEN CHOOSE o \in 1..Len(reg) : reg[o].isShip
    ELSE NULL

\* Identities are kept in a normal form: the objects of the registry are
\* numbered in registry order and an object state.spaceship refers to
\* outside the registry comes after them; objects nothing refers to are
\* dropped.
IndexOf(reg, o) == CHOOSE k \in 1..Len(reg) : reg[k] = o

canonShip(reg, ship) ==
    IF ship = NULL THEN NULL
    ELSE IF InRegistry(reg, ship) THEN IndexOf(reg, ship)
    ELSE Len(reg) + 1

canonHeap(h, reg, ship) ==
    [k \in 1..(IF ship = NULL \/ InRegistry(reg, ship) THEN Len(reg) ELSE Len(reg) + 1) |->
        IF k <= Len(reg) THEN h[reg[k]] ELSE h[ship]]

\* the handler leaves the objects h, the registry reg and state.spaceship = ship
store(h, reg, ship) ==
    /\ heap' = canonHeap(h, reg, ship)
    /\ bodies' = [k \in 1..Len(reg) |-> k]
    /\ spaceship' = canonShip(reg, ship)

\* the identity of the next object created
NewOid(h) == CHOOSE o \in 1..(Cardinality(DOMAIN h) + 1) :
                 /\ o \notin DOMAIN h
                 /\ \A q \in 1..(o - 1) : q \in DOMAIN h

\* ---------------------------------------------------- the program: Spec
\* initSolarSystem(): the Sun at the origin, at rest (the planets are left
\* out of the registry)
Sun(v) ==
    IF v = "compact" THEN Body("Sun", R(10000), R(5), ZeroVec, ZeroVec)
    ELSE Body("Sun", R(6035500), R(285), ZeroVec, ZeroVec)

\* the points of the ecliptic plane a canvas click places the ship at
ShipTargets == {<<R(300), R0>>}

\* spawn drags: where the pointer goes down, and how far it moves before it
\* goes up
SpawnPoints == {<<R(300), R0>>}
SpawnDrags == {ZeroVec}

\* what the spawn-mass and spawn-velocity fields hold
SpawnMasses == {R(8), R(-8)}
SpawnSpeeds == {R(1)}

\* outcomes of Math.floor(Math.random() * 1000)
Randoms == {7, 42}

\* ------------------------------------------------------ the page script
\* the module-level variables beside state, as the script leaves them when it
\* has run: no spawn mode and no drag, no ship placement awaited, the pointer
\* free, and the MusicManager as constructed with loadTracks() still waiting
\* for the manifests (main.js and solar-compact have the spawn flags only).
\* pressed is the element the pointer went down on and is still down on,
\* clickDue the element whose click event the browser delivers next
InitialPage ==
    [spawnMode |-> FALSE, isDraggingSpawn |-> FALSE,
     spawnStartPos |-> ZeroVec, pressed |-> "none", clickDue |-> "none",
     waitingForShipPlacement |-> FALSE, pointerLock |-> FALSE,
     isInitialized |-> FALSE, simulatorTracks |-> FALSE, pilotTracks |-> FALSE,
     currentMode |-> "simulator", currentPlaylist |-> "none", audio |-> "paused",
     musicStarted |-> FALSE, firstClickListener |-> TRUE]

\* MusicManager.switchMode(mode): nothing before the tracks are loaded or
\* when the mode is the current one; else the mode is set, and its tracks
\* (when there are any) are shuffled into the playlist and played
switchMode(p, mode) ==
    IF ~p.isInitialized \/ p.currentMode = mode THEN p
    ELSE IF ~(IF mode = "pilot" THEN p.pilotTracks ELSE p.simulatorTracks)
    THEN [p EXCEPT !.currentMode = mode, !.audio = "paused"]
    ELSE [p EXCEPT !.currentMode = mode, !.currentPlaylist = mode,
                   !.audio = "playing"]

\* the click listener of solar-realistic on document, registered with once:
\* it starts the music if the tracks are loaded, and is gone after one click
firstClick(p) ==
    IF ~p.firstClickListener THEN p
    ELSE IF ~p.musicStarted /\ p.isInitialized
    THEN [switchMode(p, "simulator") EXCEPT !.musicStarted = TRUE,
                                            !.firstClickListener = FALSE]
    ELSE [p EXCEPT !.firstClickListener = FALSE]

\* a click on element el whose pointerdown and pointerup no spawn handler
\* acted on: main.js and solar-compact listen on window and act while spawn
\* mode is on, solar-realistic listens on the canvas and acts in spawn mode
\* unless a ship is piloted or awaited
Inert(el) ==
    /\ page.pressed = "none" /\ page.clickDue = "none"
    /\ ~page.isDraggingSpawn
    /\ page.spawnMode =>
           /\ variant = "realistic"
           /\ \/ el # "canvas"
              \/ page.waitingForShipPlacement
              \/ (pilotMode /\ spaceship # NULL)

\* the click event on el is delivered: after the pointer went down and up on
\* it, or as a click of its own
Clicked(el) == page.clickDue = el \/ Inert(el)

\* what the pilot button handler of solar-realistic does to the page: on
\* entering, a ship placement is awaited; on leaving, the pointer lock is
\* released and the music switched back if the canvas holds the lock.  The
\* click does not reach document (stopPropagation).
pilotButtonPage(p, v, piloting) ==
    IF v # "realistic" THEN p
    ELSE IF ~piloting THEN [p EXCEPT !.waitingForShipPlacement = TRUE]
    ELSE IF p.pointerLock
    THEN switchMode([p EXCEPT !.pointerLock = FALSE], "simulator")
    ELSE p

\* what placeShip of solar-realistic does to the page (the browser grants
\* the pointer lock), followed by the click listener on document
canvasClickPage(p, v) ==
    IF v # "realistic" THEN p
    ELSE firstClick(switchMode([p EXCEPT !.pointerLock = TRUE,
                                         !.waitingForShipPlacement = FALSE],
                               "pilot"))

Init ==
    /\ variant \in Variants
    /\ heap = HeapOf(<<Sun(variant)>>)
    /\ bodies = <<1>>
    /\ spaceship = NULL
    /\ pilotMode = FALSE
    /\ keys = [w |-> FALSE, s |-> FALSE]
    /\ held = [w |-> FALSE, s |-> FALSE]
    /\ timeScale = 1
    /\ timers = 0
    /\ listeners = 0
    /\ page = InitialPage
    /\ frames = 0
    /\ steps = 0
    /\ last = <<>>

\* the body the spawn handler of main.js and solar-compact creates
asteroid(rnd, mass, start, velocity) ==
    Body("Asteroid_" \o ToString(rnd), mass, RMul(RCbrt(mass), Rat(1, 2)),
         start, velocity)

\* the body a spawn drag creates: solar-realistic names it after the length
\* of the registry and gives it mass 10 and radius 2
spawnedBody(v, n, start, drag, massText, speedText, rnd) ==
    IF v = "realistic"
    THEN Body("Body" \o ToString(n), R(10), R(2), start,
              multiplyScalar(drag, Rat(1, 10)))
    ELSE asteroid(rnd, parseOr(massText, R(10)), start,
                  multiplyScalar(drag, RMul(parseOr(speedText, R1), Rat(1, 10))))

\* a whole spawn gesture on the canvas, from a page with spawn mode off:
\* the spawn button, pointerdown at start, pointerup after the drag (the new
\* body is pushed), the click on the canvas, which no placeShip listens to,
\* and in solar-realistic the spawn button again to leave spawn mode.
\* solar-realistic starts no drag while a ship is piloted or while
\* waitingForShipPlacement
spawn(start, drag, massText, speedText, rnd) ==
    /\ Len(bodies) < MaxBodies
    /\ Clicked("spawn-btn") /\ page.clickDue = "none" /\ ~page.spawnMode
    /\ listeners = 0
    /\ variant = "realistic" =>
           (~(pilotMode /\ spaceship # NULL) /\ ~page.waitingForShipPlacement)
    /\ \E b \in {spawnedBody(variant, Len(bodies), start, drag, massText, speedText, rnd)} :
           /\ b.radius # UNREP
           /\ VecRep(b.velocity)
           /\ store([q \in DOMAIN heap \cup {NewOid(heap)} |->
                        IF q \in DOMAIN heap THEN heap[q] ELSE b],
                    Append(bodies, NewOid(heap)), spaceship)
    /\ page' = (IF variant = "realistic" THEN firstClick(page) ELSE page)
    /\ UNCHANGED <<variant, pilotMode, keys, held, timeScale, timers,
                   listeners, frames, steps>>
    /\ last' = <<>>

\* an initializer that runs on the registry as it was
appendToRegistry(o) == Append(bodies, o)

\* initSolarSystem() on an empty registry: the Sun, a new object o
initSolarSystem(o) == <<o>>

\* click on the reset button: state.bodies = [], state.timeScale = 1 and
\* initSolarSystem(); state.spaceship, state.pilotMode and the listeners are
\* left as they are.  Of the old objects only the one state.spaceship
\* refers to can still be reached.
resetClick ==
    /\ Clicked("reset-simulation-btn")
    /\ \E o \in {NewOid(heap)} :
           store([q \in DOMAIN heap \cup {o} |-> IF q = o THEN Sun(variant) ELSE heap[q]],
                 initSolarSystem(o), spaceship)
    /\ timeScale' = 1
    /\ page' = (IF variant = "realistic" THEN firstClick(page) ELSE page)
    /\ UNCHANGED <<variant, pilotMode, keys, held, timers, listeners,
                   frames, steps>>
    /\ last' = <<>>

\* what exitPilotMode() hands to its caller: it has no return statement and
\* no throw, whether or not indexOf finds the spaceship
exitPilotModeResult == "undefined"

\* an exit that leaves the spaceship where it is
exitKeepingShip ==
    /\ pilotMode' = FALSE
    /\ UNCHANGED <<heap, bodies, spaceship>>

\* exitPilotMode() of main.js and the exit branch of solar-realistic remove
\* the spaceship; exitPilotMode() of solar-compact keeps it as a body
exitPilotMode ==
    /\ pilotMode' = FALSE
    /\ IF variant = "compact" \/ spaceship = NULL
       THEN UNCHANGED <<heap, bodies, spaceship>>
       ELSE store(heap, SelectSeq(bodies, LAMBDA o : o # spaceship), NULL)

\* click on the pilot button: enter pilot mode and arrange for placeShip to
\* listen to canvas clicks (after 50 ms in main.js and solar-compact, at
\* once in solar-realistic), or leave pilot mode
pilotButtonClick ==
    /\ Clicked("pilot-btn")
    /\ IF ~pilotMode
       THEN /\ timers + listeners < MaxListeners
            /\ pilotMode' = TRUE
            /\ IF variant = "realistic"
               THEN listeners' = listeners + 1 /\ UNCHANGED timers
               ELSE timers' = timers + 1 /\ UNCHANGED listeners
            /\ UNCHANGED <<heap, bodies, spaceship>>
       ELSE /\ exitPilotMode
            /\ UNCHANGED <<timers, listeners>>
    /\ page' = [pilotButtonPage(page, variant, pilotMode) EXCEPT !.clickDue = "none"]
    /\ UNCHANGED <<variant, keys, held, timeScale, frames, steps>>
    /\ last' = <<>>

\* the 50 ms timer: renderer.domElement.addEventListener('click', placeShip)
timerFires ==
    /\ timers > 0
    /\ timers' = timers - 1
    /\ listeners' = listeners + 1
    /\ UNCHANGED <<variant, page, heap, bodies, spaceship, pilotMode, keys, held,
                   timeScale, frames, steps>>
    /\ last' = <<>>

\* the registered placeShip closures run one after the other on one click:
\* each creates a Spaceship, stores it in state.spaceship and pushes it
RECURSIVE placeShips(_, _, _, _, _)
placeShips(st, n, target, maxThrust, v) ==
    IF n = 0 THEN st
    ELSE LET o == NewOid(st.heap)
         IN  placeShips([heap |-> [q \in DOMAIN st.heap \cup {o} |->
                                      IF q = o THEN newShip(target, maxThrust, v)
                                      ELSE st.heap[q]],
                         bodies |-> Append(st.bodies, o),
                         spaceship |-> o],
                        n - 1, target, maxThrust, v)

\* click on the canvas at a point of the ecliptic plane
canvasClick(target, maxThrust) ==
    /\ Clicked("canvas")
    /\ listeners > 0
    /\ Len(bodies) + listeners <= MaxBodies
    /\ \E st \in {placeShips([heap |-> heap, bodies |-> bodies, spaceship |-> spaceship],
                             listeners, target, maxThrust, variant)} :
           store(st.heap, st.bodies, st.spaceship)
    /\ listeners' = 0
    /\ page' = [canvasClickPage(page, variant) EXCEPT !.clickDue = "none"]
    /\ UNCHANGED <<variant, pilotMode, keys, held, timeScale, timers, frames, steps>>
    /\ last' = <<>>

\* the keydown and keyup listeners on W or S: main.js and solar-compact
\* return at once unless a spaceship is piloted, solar-realistic does not
keyHandler(k, down) ==
    IF variant = "realistic" \/ (pilotMode /\ spaceship # NULL)
    THEN [keys EXCEPT ![k] = down]
    ELSE keys

\* the W or S key goes down (or repeats while it is down), or a key that is
\* down goes up
keyEvent(k, down) ==
    /\ down \/ held[k]
    /\ held' = [held EXCEPT ![k] = down]
    /\ keys' = keyHandler(k, down)
    /\ <<held', keys'>> # <<held, keys>>
    /\ UNCHANGED <<variant, page, heap, bodies, spaceship, pilotMode, timeScale,
                   timers, listeners, frames, steps>>
    /\ last' = <<>>

\* keydown of Escape while piloting: exitPilotMode() in main.js and
\* solar-compact (solar-realistic only releases the pointer lock)
escapeKey ==
    /\ variant # "realistic"
    /\ pilotMode /\ spaceship # NULL
    /\ exitPilotMode
    /\ UNCHANGED <<variant, page, keys, held, timeScale, timers, listeners, frames, steps>>
    /\ last' = <<>>

\* input on the time-scale slider
timeScaleInput(ts) ==
    /\ ts # timeScale
    /\ timeScale' = ts
    /\ UNCHANGED <<variant, page, heap, bodies, spaceship, pilotMode, keys, held,
                   timers, listeners, frames, steps>>
    /\ last' = <<>>

\* animate(): updatePilotControls(), then subSteps calls of updatePhysics,
\* each on what the one before it left
animate ==
    /\ frames < MaxFrames
    /\ \E calls \in {subStepLoop(<<>>,
                          updatePilotControls(heap, spaceship, pilotMode, keys, variant),
                          subSteps(variant), bodies, spaceship, pilotMode, variant,
                          stepDt(variant, timeScale))} :
           /\ Representable(calls[Len(calls)].post)
           /\ heap' = calls[Len(calls)].post
           /\ last' = calls
    /\ frames' = frames + 1
    /\ UNCHANGED <<variant, page, bodies, spaceship, pilotMode, keys, held, timeScale,
                   timers, listeners, steps>>

Next ==
    \/ pilotButtonClick
    \/ timerFires
    \/ \E target \in ShipTargets, maxThrust \in MaxThrusts : canvasClick(target, maxThrust)
    \/ \E k \in {"w", "s"}, down \in BOOLEAN : keyEvent(k, down)
    \/ escapeKey
    \/ \E ts \in SliderScales : timeScaleInput(ts)
    \/ animate

\* the page while a ship is launched, flown with W and S, and left
Spec == Init /\ [][Next]_vars

NextRegistry ==
    \/ pilotButtonClick
    \/ timerFires
    \/ \E target \in ShipTargets, maxThrust \in MaxThrusts : canvasClick(target, maxThrust)
    \/ escapeKey
    \/ \E ts \in SliderScales : timeScaleInput(ts)
    \/ \E start \in SpawnPoints, drag \in SpawnDrags, massText \in SpawnMasses,
          speedText \in SpawnSpeeds, rnd \in Randoms :
              spawn(start, drag, massText, speedText, rnd)
    \/ resetClick
    \/ animate

\* the page while bodies are spawned, a ship is launched and left, and the
\* simulation is reset (the W and S keys stay up)
SpecRegistry == Init /\ [][NextRegistry]_vars

\* --------------------------------------- the pointer, event by event: SpecPage
\* the elements the pointer goes down on
Elements == {"spawn-btn", "pilot-btn", "canvas"}

\* whether the pointerdown (mousedown) handler starts a spawn drag: main.js
\* and solar-compact listen on window and need spawn mode and a ray that
\* hits the ecliptic plane; solar-realistic listens on the canvas and also
\* needs that no ship is piloted or awaited
startsDrag(p, v, el, hit, piloting) ==
    IF v = "realistic"
    THEN el = "canvas" /\ ~piloting /\ ~p.waitingForShipPlacement /\ p.spawnMode /\ hit
    ELSE p.spawnMode /\ hit

\* the pointer goes down on el; hit tells whether the ray through the
\* pointer meets the ecliptic plane, at start
pointerDown(el, hit, start) ==
    /\ page.pressed = "none" /\ page.clickDue = "none"
    /\ page' = IF startsDrag(page, variant, el, hit, pilotMode /\ spaceship # NULL)
               THEN [page EXCEPT !.pressed = el, !.isDraggingSpawn = TRUE,
                                 !.spawnStartPos = start]
               ELSE [page EXCEPT !.pressed = el]
    /\ UNCHANGED <<variant, heap, bodies, spaceship, pilotMode, keys, held,
                   timeScale, timers, listeners, frames, steps>>
    /\ last' = <<>>

\* whether the pointerup (mouseup) handler pushes a body: main.js and
\* solar-compact whenever a drag is on; solar-realistic when the drag ends on
\* the canvas and the ray meets the plane
pushesBody(p, v, hit) ==
    /\ p.isDraggingSpawn
    /\ v = "realistic" => (p.pressed = "canvas" /\ hit)

\* a pointerup handler that ends the drag and leaves spawn mode as it is
endsDragOnly(p, v) ==
    IF ~p.isDraggingSpawn THEN p ELSE [p EXCEPT !.isDraggingSpawn = FALSE]

\* the spawn flags after pointerup: main.js and solar-compact end the drag
\* and spawn mode; solar-realistic ends the drag when the mouse goes up on
\* the canvas and keeps spawn mode
releasedPage(p, v) ==
    IF ~p.isDraggingSpawn THEN p
    ELSE IF v = "realistic"
    THEN (IF p.pressed = "canvas" THEN [p EXCEPT !.isDraggingSpawn = FALSE] ELSE p)
    ELSE [p EXCEPT !.isDraggingSpawn = FALSE, !.spawnMode = FALSE]

\* the pointer goes up on the element it went down on, after the drag; the
\* click on that element is due next
pointerUp(hit, drag, massText, speedText, rnd) ==
    /\ page.pressed # "none"
    /\ IF pushesBody(page, variant, hit)
       THEN /\ Len(bodies) < MaxBodies
            /\ \E b \in {spawnedBody(variant, Len(bodies), page.spawnStartPos, drag,
                                     massText, speedText, rnd)} :
                   /\ b.radius # UNREP
                   /\ VecRep(b.velocity)
                   /\ store([q \in DOMAIN heap \cup {NewOid(heap)} |->
                                IF q \in DOMAIN heap THEN heap[q] ELSE b],
                            Append(bodies, NewOid(heap)), spaceship)
       ELSE UNCHANGED <<heap, bodies, spaceship>>
    /\ page' = [releasedPage(page, variant) EXCEPT !.pressed = "none",
                                                   !.clickDue = page.pressed]
    /\ UNCHANGED <<variant, pilotMode, keys, held, timeScale, timers,
                   listeners, frames, steps>>
    /\ last' = <<>>

\* click on the spawn button: spawnMode = !spawnMode
spawnButtonClick ==
    /\ Clicked("spawn-btn")
    /\ page' = [page EXCEPT !.spawnMode = ~page.spawnMode, !.clickDue = "none"]
    /\ UNCHANGED <<variant, heap, bodies, spaceship, pilotMode, keys, held,
                   timeScale, timers, listeners, frames, steps>>
    /\ last' = <<>>

\* a click on the canvas that no placeShip listens to: in solar-realistic
\* it reaches the click listener on document
documentClick ==
    /\ Clicked("canvas")
    /\ listeners = 0
    /\ page' = [(IF variant = "realistic" THEN firstClick(page) ELSE page)
                   EXCEPT !.clickDue = "none"]
    /\ page' # page
    /\ UNCHANGED <<variant, heap, bodies, spaceship, pilotMode, keys, held,
                   timeScale, timers, listeners, frames, steps>>
    /\ last' = <<>>

\* loadTracks() of solar-realistic resolves: each folder had a manifest with
\* tracks, or none
tracksLoaded(simulatorTracks, pilotTracks) ==
    /\ variant = "realistic"
    /\ ~page.isInitialized
    /\ page' = [page EXCEPT !.isInitialized = TRUE,
                            !.simulatorTracks = simulatorTracks,
                            !.pilotTracks = pilotTracks]
    /\ UNCHANGED <<variant, heap, bodies, spaceship, pilotMode, keys, held,
                   timeScale, timers, listeners, frames, steps>>
    /\ last' = <<>>

\* keydown of Escape in solar-realistic: document.exitPointerLock() while in
\* pilot mode with the pointer locked to the canvas
escapeLock ==
    /\ variant = "realistic"
    /\ pilotMode /\ page.pointerLock
    /\ page' = [page EXCEPT !.pointerLock = FALSE]
    /\ UNCHANGED <<variant, heap, bodies, spaceship, pilotMode, keys, held,
                   timeScale, timers, listeners, frames, steps>>
    /\ last' = <<>>

NextPage ==
    \/ \E el \in Elements, hit \in BOOLEAN, start \in SpawnPoints :
           pointerDown(el, hit, start)
    \/ \E hit \in BOOLEAN, drag \in SpawnDrags, massText \in SpawnMasses,
          speedText \in SpawnSpeeds, rnd \in Randoms :
              pointerUp(hit, drag, massText, speedText, rnd)
    \/ spawnButtonClick
    \/ documentClick
    \/ pilotButtonClick
    \/ timerFires
    \/ \E target \in ShipTargets, maxThrust \in MaxThrusts : canvasClick(target, maxThrust)
    \/ escapeKey
    \/ escapeLock
    \/ \E simulatorTracks \in BOOLEAN, pilotTracks \in BOOLEAN :
           tracksLoaded(simulatorTracks, pilotTracks)

\* the page while the pointer is pressed and released on the spawn button,
\* the pilot button and the canvas, a ship is launched and left, and the
\* music tracks arrive
SpecPage == Init /\ [][NextPage]_vars

\* ------------- updatePhysics as a function of what it is handed: SpecKernel
\* registries of spawned bodies without a spaceship: one to three bodies
PlainRegistries ==
    LET first == {Body("Asteroid_1", k[1], k[2], <<R0, R0>>, w) :
                     k \in BodyKinds, w \in {<<R0, R0>>, <<R0, R(1)>>}}
        second == {Body("Asteroid_2", k[1], k[2], p, w) :
                     k \in BodyKinds, p \in PlanePositions,
                     w \in {<<R0, R0>>, <<R(1), R0>>, <<R(-1), R0>>}}
        middle == {Body("Asteroid_2", k[1], k[2], p, w) :
                     k \in BodyKinds, p \in AxisPositions,
                     w \in {<<R0, R0>>, <<R(-1), R0>>}}
        third == {Body("Asteroid_3", R(1), Rat(1, 2), p, ZeroVec) : p \in AxisPositions}
    IN  {<<a>> : a \in first}
        \cup {<<a, b>> : a \in first, b \in second}
        \cup {<<a, b, c>> : a \in first, b \in middle, c \in third}

\* registries with a piloted spaceship and up to one other body, in either
\* order of creation
ShipRegistries(v) ==
    LET ships == {[newShip(<<R(x), R0>>, m, v) EXCEPT !.currentThrust = t] :
                     x \in 0..1, m \in {R(1)}, t \in Thrusts}
        others == {Body("Asteroid_1", k[1], k[2], p, w) :
                     k \in BodyKinds, p \in AxisPositions,
                     w \in {<<R0, R0>>} \cup FastVelocities}
    IN  {<<s>> : s \in ships}
        \cup {<<s, b>> : s \in ships, b \in others}
        \cup {<<b, s>> : s \in ships, b \in others}

\* state.pilotMode beside state.spaceship: a ship is piloted, or was placed
\* by a listener left over from an earlier pilot mode and has not been
\* piloted since, or (solar-compact) was kept when pilot mode was left
PilotModes(v, h, ship) ==
    IF ship = NULL THEN {FALSE}
    ELSE IF v = "compact" \/ h[ship].currentThrust = R0 THEN BOOLEAN
    ELSE {TRUE}

InitKernel ==
    /\ variant \in Variants
    /\ \E reg \in PlainRegistries \cup ShipRegistries(variant) :
          /\ heap = HeapOf(reg)
          /\ bodies = [k \in 1..Len(reg) |-> k]
          /\ spaceship = ShipOf(reg)
    /\ pilotMode \in PilotModes(variant, heap, spaceship)
    /\ keys = [w |-> FALSE, s |-> FALSE]
    /\ held = [w |-> FALSE, s |-> FALSE]
    /\ timeScale \in TimeScales
    /\ timers = 0
    /\ listeners = 0
    /\ page = InitialPage
    /\ frames = 0
    /\ steps = 0
    /\ last = <<>>

\* one call updatePhysics(stepDt)
physicsStep ==
    /\ steps < MaxSteps
    /\ \E r \in {updatePhysics(heap, bodies, spaceship, pilotMode, variant,
                               stepDt(variant, timeScale))} :
           /\ Representable(r.post)
           /\ heap' = r.post
           /\ last' = <<r>>
    /\ steps' = steps + 1
    /\ UNCHANGED <<variant, page, bodies, spaceship, pilotMode, keys, held, timeScale,
                   timers, listeners, frames>>

NextKernel == physicsStep

SpecKernel == InitKernel /\ [][NextKernel]_vars

\* ------------------------------------------------------------ properties
\* a <= b
AtMost(a, b) == a # NAN /\ (a = b \/ (Comparable(a, b) /\ RLt(a, b)))

\* 0.99999 x 638
SpeedLimit == RMul(R(638), Rat(99999, 100000))

\* the pairs the latest handler's calls processed: <<call, pair>>
Pairs == UNION {{<<c, k>> : k \in DOMAIN last[c].events} : c \in DOMAIN last}
PairAt(ck) == last[ck[1]].events[ck[2]]

\* as the pair found its two bodies: separation vector, distance d,
\* radiusI + radiusJ, and velocity of J relative to I along the normal
Separation(e) == subVectors(e.readB.position, e.readA.position)
Distance(e) == length(Separation(e))
RadiusSum(e) == RAdd(e.readA.radius, e.readB.radius)
Overlapping(e) == RLt(Distance(e), RadiusSum(e))
Overlap(e) == RSub(RadiusSum(e), Distance(e))
Normal(e) == normalize(Separation(e))
NormalSpeedBefore(e) == dot(subVectors(e.readB.velocity, e.readA.velocity), Normal(e))
NormalSpeedAfter(e) == dot(subVectors(e.wroteB.velocity, e.wroteA.velocity), Normal(e))

\* what the pair added to the force accumulators of its bodies
AddedToA(e) == sub(e.wroteA.force, e.readA.force)
AddedToB(e) == sub(e.wroteB.force, e.readB.force)

\* the z component of v x w (both in the plane): 0 iff v and w are parallel
Cross(v, w) == RSub(RMul(v[1], w[2]), RMul(v[2], w[1]))

\* the positions the correction of an overlapping pair has to leave: I moved
\* against and J along the normal, by overlap x massJ / (massI + massJ) and
\* overlap x massI / (massI + massJ)
CorrectedA(e) ==
    sub(e.readA.position,
        multiplyScalar(Normal(e),
            RDiv(RMul(Overlap(e), e.readB.mass), RAdd(e.readA.mass, e.readB.mass))))
CorrectedB(e) ==
    add(e.readB.position,
        multiplyScalar(Normal(e),
            RDiv(RMul(Overlap(e), e.readA.mass), RAdd(e.readA.mass, e.readB.mass))))

RECURSIVE SumForces(_, _, _)
SumForces(h, reg, k) ==
    IF k = 0 THEN ZeroVec ELSE add(SumForces(h, reg, k - 1), h[reg[k]].force)

\* C1: in src/main.js and solar-realistic/main.js, when a call of
\* updatePhysics returns, the speed of state.spaceship is at most
\* 0.99999 x 638, whatever the thrust, the dt and the collisions of the step
ShipSpeedCapped ==
    \A c \in DOMAIN last :
        (variant # "compact" /\ last[c].spaceship # NULL) =>
            AtMost(length(last[c].post[last[c].spaceship].velocity), SpeedLimit)

\* a call in which a collision left the ship faster than the limit and the
\* integration brought it back to the limit
ShipSpeedClamped ==
    \E c \in DOMAIN last :
        /\ variant # "compact"
        /\ last[c].spaceship # NULL
        /\ \E k \in DOMAIN last[c].events :
              /\ last[c].spaceship \in {last[c].events[k].a, last[c].events[k].b}
              /\ last[c].events[k].kind = "collision"
        /\ ~AtMost(length(last[c].mid[last[c].spaceship].velocity), SpeedLimit)
        /\ length(last[c].post[last[c].spaceship].velocity) = SpeedLimit

\* C2: a non-colliding pair adds to the accumulator of I exactly the
\* negation of what it adds to the accumulator of J, and after the pairwise
\* phase of a call that applies no thrust the accumulators sum to zero
GravityEqualOpposite ==
    /\ \A ck \in Pairs :
          ~Overlapping(PairAt(ck)) =>
              AddedToA(PairAt(ck)) = multiplyScalar(AddedToB(PairAt(ck)), R(-1))
    /\ \A c \in DOMAIN last :
          (~last[c].pilotMode \/ last[c].spaceship = NULL) =>
              SumForces(last[c].mid, last[c].bodies, Len(last[c].bodies)) = ZeroVec

\* three bodies attracting one another, no thrust
ThreeBodiesAttract ==
    \E c \in DOMAIN last :
        /\ last[c].spaceship = NULL
        /\ Len(last[c].events) = 3
        /\ \A k \in DOMAIN last[c].events :
              /\ ~Overlapping(last[c].events[k])
              /\ AddedToA(last[c].events[k]) # ZeroVec

\* C3: every pair (i, j) of a call is evaluated on the positions and
\* velocities its bodies had when the call began: no pair reads a position
\* or velocity changed earlier in the same call
PairsReadStepStart ==
    \A ck \in Pairs :
        /\ PairAt(ck).readA.position = last[ck[1]].pre[PairAt(ck).a].position
        /\ PairAt(ck).readA.velocity = last[ck[1]].pre[PairAt(ck).a].velocity
        /\ PairAt(ck).readB.position = last[ck[1]].pre[PairAt(ck).b].position
        /\ PairAt(ck).readB.velocity = last[ck[1]].pre[PairAt(ck).b].velocity

\* C4: a pair with d < radiusI + radiusJ when it is processed adds nothing to
\* either force accumulator, and a pair with d >= radiusI + radiusJ changes
\* no position and no velocity
CollisionReplacesGravity ==
    \A ck \in Pairs :
        IF Overlapping(PairAt(ck))
        THEN /\ PairAt(ck).wroteA.force = PairAt(ck).readA.force
             /\ PairAt(ck).wroteB.force = PairAt(ck).readB.force
        ELSE /\ PairAt(ck).wroteA.position = PairAt(ck).readA.position
             /\ PairAt(ck).wroteA.velocity = PairAt(ck).readA.velocity
             /\ PairAt(ck).wroteB.position = PairAt(ck).readB.position
             /\ PairAt(ck).wroteB.velocity = PairAt(ck).readB.velocity

\* a call with an overlapping pair that was moved apart and another pair
\* that attracted
CollidingAndAttractingPairs ==
    \E c \in DOMAIN last :
        \E k, m \in DOMAIN last[c].events :
            /\ Overlapping(last[c].events[k])
            /\ last[c].events[k].wroteA.position # last[c].events[k].readA.position
            /\ ~Overlapping(last[c].events[m])
            /\ AddedToA(last[c].events[m]) # ZeroVec

\* C5: the correction of an overlapping pair moves I by
\* overlap x massJ / (massI + massJ) and J by overlap x massI / (massI + massJ),
\* in opposite directions along the separation vector, and leaves the two at
\* a distance >= radiusI + radiusJ
CorrectionSeparates ==
    \A ck \in Pairs :
        Overlapping(PairAt(ck)) =>
            /\ PairAt(ck).wroteA.position = CorrectedA(PairAt(ck))
            /\ PairAt(ck).wroteB.position = CorrectedB(PairAt(ck))
            /\ length(subVectors(PairAt(ck).wroteA.position, PairAt(ck).readA.position))
                   = RDiv(RMul(Overlap(PairAt(ck)), PairAt(ck).readB.mass),
                          RAdd(PairAt(ck).readA.mass, PairAt(ck).readB.mass))
            /\ AtMost(RadiusSum(PairAt(ck)),
                      length(subVectors(PairAt(ck).wroteB.position,
                                        PairAt(ck).wroteA.position)))

\* C6: an overlapping pair that is approaching (relative velocity along the
\* normal <= 0) leaves with that relative velocity times -0.95, and the
\* velocity of each body changes along the normal only
RestitutionAlongNormal ==
    \A ck \in Pairs :
        (Overlapping(PairAt(ck)) /\ AtMost(NormalSpeedBefore(PairAt(ck)), R0)) =>
            /\ NormalSpeedAfter(PairAt(ck))
                   = RMul(Rat(-95, 100), NormalSpeedBefore(PairAt(ck)))
            /\ Cross(sub(PairAt(ck).wroteA.velocity, PairAt(ck).readA.velocity),
                     Normal(PairAt(ck))) = R0
            /\ Cross(sub(PairAt(ck).wroteB.velocity, PairAt(ck).readB.velocity),
                     Normal(PairAt(ck))) = R0

\* two bodies of equal mass meet head-on while one of them also moves across
\* the normal
HeadOnBounce ==
    \E ck \in Pairs :
        /\ Overlapping(PairAt(ck))
        /\ PairAt(ck).readA.mass = PairAt(ck).readB.mass
        /\ RLt(NormalSpeedBefore(PairAt(ck)), R0)
        /\ Cross(PairAt(ck).readA.velocity, Normal(PairAt(ck))) # R0
        /\ PairAt(ck).wroteA.velocity # PairAt(ck).readA.velocity

\* C7: an overlapping pair whose relative velocity along the normal is > 0
\* keeps both velocities and still has both positions corrected
SeparatingKeepsVelocity ==
    \A ck \in Pairs :
        (Overlapping(PairAt(ck)) /\ ~AtMost(NormalSpeedBefore(PairAt(ck)), R0)) =>
            /\ PairAt(ck).wroteA.velocity = PairAt(ck).readA.velocity
            /\ PairAt(ck).wroteB.velocity = PairAt(ck).readB.velocity
            /\ PairAt(ck).wroteA.position = CorrectedA(PairAt(ck))
            /\ PairAt(ck).wroteB.position = CorrectedB(PairAt(ck))

\* an overlapping pair already moving apart, pushed farther apart
SeparatingPairCorrected ==
    \E ck \in Pairs :
        /\ Overlapping(PairAt(ck))
        /\ ~AtMost(NormalSpeedBefore(PairAt(ck)), R0)
        /\ PairAt(ck).wroteA.position # PairAt(ck).readA.position
        /\ PairAt(ck).wroteB.position # PairAt(ck).readB.position

\* what body o gathers in call r up to pair k: the thrust if the call
\* applies it, then what each pair adds
RECURSIVE Gathered(_, _, _)
Gathered(r, o, k) ==
    IF k = 0
    THEN IF r.pilotMode /\ r.spaceship = o
         THEN multiplyScalar(r.pre[o].forward, r.pre[o].currentThrust)
         ELSE ZeroVec
    ELSE add(Gathered(r, o, k - 1),
             IF r.events[k].a = o THEN AddedToA(r.events[k])
             ELSE IF r.events[k].b = o THEN AddedToB(r.events[k])
             ELSE ZeroVec)

\* velocity + (F / mass) x dt on what the pairwise phase left
Accelerated(r, o) ==
    add(r.mid[o].velocity,
        multiplyScalar(multiplyScalar(r.mid[o].force, RInv(r.mid[o].mass)), r.dt))

\* the same, brought back to the speed limit for the ship
Limited(r, o) ==
    IF /\ variant # "compact"
       /\ r.spaceship = o
       /\ ~AtMost(length(Accelerated(r, o)), SpeedLimit)
    THEN multiplyScalar(normalize(Accelerated(r, o)), SpeedLimit)
    ELSE Accelerated(r, o)

Newton(e) ==
    RDiv(RMul(RMul(CONFIG_G(variant), e.readA.mass), e.readB.mass),
         RMul(Distance(e), Distance(e)))

\* the gravity on body o from its partners in the non-overlapping pairs of
\* call r, up to pair k
RECURSIVE GravityOn(_, _, _)
GravityOn(r, o, k) ==
    IF k = 0 THEN ZeroVec
    ELSE add(GravityOn(r, o, k - 1),
             IF Overlapping(r.events[k]) THEN ZeroVec
             ELSE IF r.events[k].a = o
             THEN multiplyScalar(Normal(r.events[k]), Newton(r.events[k]))
             ELSE IF r.events[k].b = o
             THEN multiplyScalar(Normal(r.events[k]), RNeg(Newton(r.events[k])))
             ELSE ZeroVec)

\* forward x currentThrust of the ship of call r
ThrustOf(r) ==
    multiplyScalar(r.pre[r.spaceship].forward, r.pre[r.spaceship].currentThrust)

\* the ship of call r has the force t in its accumulator when the first pair
\* reads it, and t plus the gravity of its non-colliding partners after the
\* pairwise phase
ShipForce(r, t) ==
    /\ \A k \in DOMAIN r.events :
          (/\ r.spaceship \in {r.events[k].a, r.events[k].b}
           /\ \A m \in 1..(k - 1) : r.spaceship \notin {r.events[m].a, r.events[m].b})
          => (IF r.events[k].a = r.spaceship THEN r.events[k].readA.force
              ELSE r.events[k].readB.force) = t
    /\ r.mid[r.spaceship].force = add(t, GravityOn(r, r.spaceship, Len(r.events)))

ThrustInRange ==
    \A o \in DOMAIN heap :
        (heap[o].isShip /\ RLt(R0, heap[o].maxThrust)) =>
            /\ AtMost(RMul(Rat(-1, 2), heap[o].maxThrust), heap[o].currentThrust)
            /\ AtMost(heap[o].currentThrust, heap[o].maxThrust)

\* the thrust a control tick has to leave, from thrust t and limit m
TickedThrust(t, m) ==
    IF keys.w
    THEN RMin(RAdd(t, IF variant = "realistic" THEN Rat(1, 20) ELSE Rat(1, 10)), m)
    ELSE IF keys.s
    THEN RMax(RSub(t, IF variant = "realistic" THEN Rat(1, 20) ELSE Rat(1, 10)),
              RMul(Rat(-1, 2), m))
    ELSE RMul(Rat(95, 100), t)

\* a step changes currentThrust only by a control tick on the piloted ship:
\* W raises it by the increment up to maxThrust, S without W lowers it by
\* the increment down to -0.5 x maxThrust, no key multiplies it by 0.95
ControlTick ==
    \A o \in DOMAIN heap \cap DOMAIN heap' :
        heap[o].isShip =>
            heap'[o].currentThrust =
                IF frames' # frames /\ pilotMode /\ spaceship = o
                THEN TickedThrust(heap[o].currentThrust, heap[o].maxThrust)
                ELSE heap[o].currentThrust

\* C10: for a ship created with maxThrust > 0, currentThrust stays within
\* [-0.5 x maxThrust, maxThrust] over any sequence of control ticks with any
\* W/S key states: W raises it by the fixed increment capped at maxThrust, S
\* (without W) lowers it by the increment floored at -0.5 x maxThrust, and
\* with no key it is multiplied by 0.95
ThrustControlLaw == []ThrustInRange /\ [][ControlTick]_vars

\* a ship whose thrust W has driven to maxThrust
ThrustAtMaximum ==
    \E o \in DOMAIN heap :
        /\ heap[o].isShip
        /\ pilotMode
        /\ spaceship = o
        /\ keys.w
        /\ frames = MaxFrames
        /\ RLt(R0, heap[o].maxThrust)
        /\ heap[o].currentThrust = heap[o].maxThrust

\* state.keys shows a key as down only while it is down
KeysWhileHeld ==
    variant = "main" => ((keys.w => held.w) /\ (keys.s => held.s))

\* a control tick on the piloted ship with W and S both up multiplies
\* currentThrust by 0.95
IdleDecay ==
    (/\ variant = "main"
     /\ frames' # frames
     /\ pilotMode
     /\ spaceship # NULL
     /\ ~held.w
     /\ ~held.s)
    => heap'[spaceship].currentThrust
           = RMul(Rat(95, 100), heap[spaceship].currentThrust)

\* C11: in src/main.js, after any keydown/keyup, pilot-button, Escape and
\* ship-placement events, state.keys.w (state.keys.s) is true only while W (S)
\* is held down, so that a control tick with neither key held multiplies
\* currentThrust by 0.95
IdleWhenKeysUp == []KeysWhileHeld /\ [][IdleDecay]_vars

\* C12: in src/main.js, after any pilot-button clicks, canvas clicks, Escape
\* presses, reset clicks, spawn drags and frames, whenever state.spaceship is
\* non-null that object occurs exactly once in state.bodies
ShipInRegistryOnce ==
    (variant = "main" /\ spaceship # NULL) =>
        Cardinality({k \in DOMAIN bodies : bodies[k] = spaceship}) = 1

\* the Spaceship objects in state.bodies
ShipsInRegistry == {k \in DOMAIN bodies : heap[bodies[k]].isShip}

AtMostOneShip ==
    variant \in {"main", "realistic"} => Cardinality(ShipsInRegistry) <= 1

\* no event adds more than one body to state.bodies
OneShipPerClick ==
    variant \in {"main", "realistic"} => Len(bodies') <= Len(bodies) + 1

\* C13: in src/main.js and solar-realistic/main.js, after any pilot-button
\* clicks, canvas clicks, Escape presses and listener-registration timers,
\* state.bodies holds at most one Spaceship, and a single canvas click creates
\* at most one
OneShipAtATime == []AtMostOneShip /\ [][OneShipPerClick]_vars

\* C14: names are unique within the registry: after any sequence of spawns,
\* ship placements, pilot-mode exits and resets no two bodies of state.bodies
\* have the same name (a body with a name already in use is not added).
UniqueNames ==
    \A i, j \in DOMAIN bodies :
        heap[bodies[i]].name = heap[bodies[j]].name => i = j

\* C15: every body of state.bodies has mass > 0 and radius > 0 at all times
\* (a body whose mass or radius would be <= 0 is not constructed and not
\* added).
PositiveMassAndRadius ==
    \A k \in DOMAIN bodies :
        /\ RLt(R0, heap[bodies[k]].mass)
        /\ RLt(R0, heap[bodies[k]].radius)

Finite(x) == x[2] # 0
FiniteVec(v) == Finite(v[1]) /\ Finite(v[2])

\* the pairs of registry indices whose bodies are at one point when the call
\* begins
Coincident(call) ==
    {p \in (DOMAIN call.bodies) \X (DOMAIN call.bodies) :
        /\ p[1] < p[2]
        /\ call.pre[call.bodies[p[1]]].position = call.pre[call.bodies[p[2]]].position}

StaysFinite(call, o) ==
    FiniteVec(call.post[o].position) /\ FiniteVec(call.post[o].velocity)

GravityAtZero(call) ==
    {k \in DOMAIN call.events :
        /\ call.events[k].kind = "gravity"
        /\ call.events[k].readA.position = call.events[k].readB.position}

\* C16: two bodies at identical coordinates have no NaN or infinite position
\* or velocity after one updatePhysics step, and no pair at distance 0 takes
\* the gravity branch (the division by distance squared).
CoincidentBodiesSafe ==
    \A c \in DOMAIN last :
        /\ \A p \in Coincident(last[c]) :
               /\ StaysFinite(last[c], last[c].bodies[p[1]])
               /\ StaysFinite(last[c], last[c].bodies[p[2]])
        /\ GravityAtZero(last[c]) = {}

\* the objects after one control tick on the piloted ship
AfterControls ==
    [o \in DOMAIN heap |->
        IF pilotMode /\ o = spaceship
        THEN [heap[o] EXCEPT !.currentThrust =
                 TickedThrust(heap[o].currentThrust, heap[o].maxThrust)]
        ELSE heap[o]]

\* the calls of a frame follow one another on one registry: the first gets
\* the objects the control tick left, each other the objects the call before
\* it left, and what the frame leaves for the camera and the renderer is
\* what the last call left
Sequential(calls) ==
    /\ \A c \in DOMAIN calls :
          /\ calls[c].bodies = bodies
          /\ calls[c].spaceship = spaceship
          /\ calls[c].pilotMode = pilotMode
          /\ calls[c].pre = IF c = 1 THEN AfterControls ELSE calls[c - 1].post
          /\ spaceship \in DOMAIN heap =>
                 calls[c].post[spaceship].currentThrust =
                     AfterControls[spaceship].currentThrust
    /\ heap' = calls[Len(calls)].post
    /\ bodies' = bodies /\ spaceship' = spaceship /\ pilotMode' = pilotMode

TenSubSteps ==
    (variant \in {"main", "realistic"} /\ frames' # frames) =>
        /\ Len(last') = 10
        /\ \A c \in DOMAIN last' :
               RMul(R(10), last'[c].dt) = RMul(CONFIG_dt(variant), R(timeScale))
        /\ Sequential(last')

\* C17: in main.js and solar-realistic a frame runs updatePilotControls once
\* and then calls updatePhysics exactly 10 times, each with dt = CONFIG.dt x
\* state.timeScale / 10, one after the other: no handler and no thrust
\* change comes between the sub-steps, and the camera and the renderer read
\* what the last sub-step left.
FrameRunsTenSubSteps == [][TenSubSteps]_vars

\* a frame of main.js or solar-realistic with a piloted ship under thrust,
\* whose first sub-step changed the objects
FrameWithThrust ==
    /\ variant \in {"main", "realistic"}
    /\ Len(last) = 10
    /\ pilotMode /\ spaceship \in DOMAIN heap
    /\ heap[spaceship].currentThrust # R0
    /\ last[1].post # last[1].pre
    /\ last[2].pre = last[1].post

\* the bodies of the registry, in order, as they are
Objects == [k \in DOMAIN bodies |-> heap[bodies[k]]]

\* the registry indices of the bodies other than state.spaceship, in order
OtherIndices == SelectSeq([k \in DOMAIN bodies |-> k], LAMBDA k : bodies[k] # spaceship)

\* a step of main.js that leaves pilot mode: the pilot button while active,
\* or Escape
LeavesPilotMode == variant = "main" /\ pilotMode /\ ~pilotMode'

CraftDestroyed ==
    LeavesPilotMode =>
        /\ spaceship' = NULL
        /\ Objects' = [m \in DOMAIN OtherIndices |-> heap[bodies[OtherIndices[m]]]]

\* C18: in main.js, leaving pilot mode destroys the craft: afterwards
\* state.pilotMode is false, state.spaceship is null and the ship is not in
\* state.bodies, and every other body has kept its state and its place among
\* the others.
ExitDestroysCraft == [][CraftDestroyed]_vars

\* main.js after an exit that removed the piloted ship and left another
\* spaceship, placed by the same click, behind in the registry
ExitLeftOtherShip ==
    /\ variant = "main"
    /\ ~pilotMode /\ spaceship = NULL
    /\ \E k \in DOMAIN bodies : heap[bodies[k]].isShip

\* what the first initSolarSystem() call put into the registry
InitialObjects == <<Sun(variant)>>

ResetRestores ==
    (variant = "main" /\ resetClick) =>
        /\ Objects' = InitialObjects
        /\ \A k \in DOMAIN initSolarSystem(NewOid(heap)) :
               initSolarSystem(NewOid(heap))[k] \notin DOMAIN heap

Orders(n) == {p \in [1..n -> 1..n] : \A i, j \in 1..n : p[i] = p[j] => i = j}

\* what the call would have left with the registry in the order p
Reordered(call, p) ==
    updatePhysics(call.pre, [k \in DOMAIN call.bodies |-> call.bodies[p[k]]],
                  call.spaceship, call.pilotMode, variant, call.dt).post

SameMotion(h, g, o) ==
    h[o].position = g[o].position /\ h[o].velocity = g[o].velocity

\* C20: the order of the registry has no physical meaning: for the same
\* bodies and the same dt, one updatePhysics step leaves each body the same
\* position and velocity whatever the order of state.bodies (in exact
\* arithmetic), and the step is a function of the registry order and dt.
OrderIrrelevant ==
    \A c \in DOMAIN last :
        \A p \in Orders(Len(last[c].bodies)) :
            Representable(Reordered(last[c], p)) =>
                \A k \in DOMAIN last[c].bodies :
                    SameMotion(Reordered(last[c], p), last[c].post, last[c].bodies[k])

\* a step of main.js that leaves pilot mode with a spaceship that is not in
\* the registry
RemovesAbsentShip ==
    LeavesPilotMode /\ spaceship # NULL /\ ~InRegistry(bodies, spaceship)

NotFoundReported ==
    RemovesAbsentShip =>
        /\ exitPilotModeResult = "NotFoundError"
        /\ Objects' = Objects

\* C21: removing a body that is not in the registry (leaving pilot mode when
\* the ship is no longer in state.bodies) is reported to the caller as a
\* not-found error and leaves state.bodies as it was.
AbsentRemovalReported == [][NotFoundReported]_vars

\* force / mass of body o after the pairwise phase of call r: the
\* acceleration at the positions the step integrates from
StartAcceleration(r, o) == multiplyScalar(r.mid[o].force, RInv(r.mid[o].mass))

\* force / mass of body o at the positions call r left: what the pairwise
\* phase of a call on those objects gathers
EndAcceleration(r, o) ==
    StartAcceleration(
        updatePhysics(r.post, r.bodies, r.spaceship, r.pilotMode, variant, r.dt), o)

\* the bodies of call r the speed limit left alone
Unlimited(r) ==
    {o \in {r.bodies[k] : k \in DOMAIN r.bodies} : Limited(r, o) = Accelerated(r, o)}

\* position + velocity x dt + weight x acceleration x dt^2
Displaced(r, o, weight) ==
    add(r.mid[o].position,
        add(multiplyScalar(r.mid[o].velocity, r.dt),
            multiplyScalar(StartAcceleration(r, o), RMul(weight, RMul(r.dt, r.dt)))))

\* velocity + dt x the mean of the accelerations at the start and at the end
MeanAccelerated(r, o) ==
    add(r.mid[o].velocity,
        multiplyScalar(add(StartAcceleration(r, o), EndAcceleration(r, o)),
                       RMul(Rat(1, 2), r.dt)))

Playing == IF page.audio = "playing" THEN page.currentPlaylist ELSE "none"

\* solar-realistic with both manifests loaded, tracks in both folders, and a
\* first click that came after the tracks and started the music
MusicRunning ==
    /\ variant = "realistic"
    /\ page.isInitialized /\ page.simulatorTracks /\ page.pilotTracks
    /\ page.musicStarted

\* C23: in solar-realistic, once the track manifests have loaded and the
\* user has clicked, the playlist that plays is that of the current mode at
\* all times: the pilot playlist while a ship is piloted, else the simulator
\* playlist.
PlaylistMatchesMode ==
    MusicRunning =>
        Playing = IF pilotMode /\ spaceship # NULL THEN "pilot" ELSE "simulator"

\* C25: in main.js a ship exists only while pilot mode is active: in every
\* state, state.spaceship != null implies state.pilotMode (once pilot mode
\* is left, no canvas click creates a ship until the pilot button is clicked
\* again).
ShipOnlyWhilePiloting ==
    (variant = "main" /\ spaceship # NULL) => pilotMode

\* sum over the registry reg of mass x velocity, on the objects of h
RECURSIVE Momentum(_, _, _)
Momentum(h, reg, k) ==
    IF k = 0 THEN ZeroVec
    ELSE add(Momentum(h, reg, k - 1),
             multiplyScalar(h[reg[k]].velocity, h[reg[k]].mass))

\* call r applies no thrust and its speed limit changes no velocity
Unpowered(r) ==
    /\ ~(r.pilotMode /\ r.spaceship # NULL /\ ThrustOf(r) # ZeroVec)
    /\ \A k \in DOMAIN r.bodies : r.bodies[k] \in Unlimited(r)

\* C26: in an updatePhysics call that applies no thrust and in which the
\* speed limit does not trigger, the sum over state.bodies of mass x velocity
\* is the same after the call as before it, whether the pairs gravitate or
\* collide.
MomentumConserved ==
    \A c \in DOMAIN last :
        (/\ Unpowered(last[c])
         /\ VecRep(Momentum(last[c].pre, last[c].bodies, Len(last[c].bodies)))
         /\ VecRep(Momentum(last[c].post, last[c].bodies, Len(last[c].bodies))))
        => Momentum(last[c].post, last[c].bodies, Len(last[c].bodies))
               = Momentum(last[c].pre, last[c].bodies, Len(last[c].bodies))

\* the step is a pointerup, or a pointerdown
PointerUpStep == page.pressed # "none" /\ page'.pressed = "none"
PointerDownStep == page.pressed = "none" /\ page'.pressed # "none"

\* the registry and the spawn flags are left as they were
SpawnStateKept ==
    /\ Objects' = Objects
    /\ page'.spawnMode = page.spawnMode
    /\ page'.isDraggingSpawn = page.isDraggingSpawn

SpawnDragEffect ==
    variant = "main" =>
        /\ (PointerUpStep /\ page.isDraggingSpawn) =>
               /\ Len(bodies') = Len(bodies) + 1
               /\ SubSeq(Objects', 1, Len(bodies)) = Objects
               /\ ~Objects'[Len(bodies')].isShip
               /\ Objects'[Len(bodies')].position = page.spawnStartPos
               /\ ~page'.spawnMode
               /\ ~page'.isDraggingSpawn
        /\ (PointerUpStep /\ ~page.isDraggingSpawn) => SpawnStateKept
        /\ (PointerDownStep /\ ~page.spawnMode) => SpawnStateKept

\* C27: in src/main.js every pointerup that ends a spawn drag appends exactly
\* one new body at the end of state.bodies, leaves the existing bodies and
\* their order unchanged, and leaves spawnMode and isDraggingSpawn false; a
\* pointerup with no drag in progress and a pointerdown while spawnMode is
\* false change neither the registry nor the spawn flags.
SpawnDragAppendsOne == [][SpawnDragEffect]_vars

\* main.js just after the pointerup that ended a spawn drag: the new body is
\* the last of the registry, at the point where the drag began
SpawnDragEnded ==
    /\ variant = "main"
    /\ page.clickDue # "none"
    /\ ~page.spawnMode /\ ~page.isDraggingSpawn
    /\ Len(bodies) = 2
    /\ ~heap[bodies[2]].isShip
    /\ heap[bodies[2]].position = page.spawnStartPos

\* C28: in solar-realistic/main.js waitingForShipPlacement is true only while
\* a ship placement is pending: in every state waitingForShipPlacement
\* implies state.pilotMode and state.spaceship == null (so that once pilot
\* mode is left without placing a ship, a drag in spawn mode spawns again).
WaitingOnlyWhilePending ==
    (variant = "realistic" /\ page.waitingForShipPlacement)
        => (pilotMode /\ spaceship = NULL)

\* the step is the click that follows a press on the spawn button
SpawnClickStep == page.clickDue = "spawn-btn" /\ page'.clickDue = "none"

SpawnButtonPress ==
    variant = "main" =>
        /\ (PointerUpStep /\ page.pressed = "spawn-btn" /\ page.spawnMode) =>
               (Objects' = Objects /\ page'.spawnMode)
        /\ (SpawnClickStep /\ page.spawnMode) =>
               (Objects' = Objects /\ ~page'.spawnMode)

\* C29: in src/main.js pressing the spawn button while spawn mode is active
\* (pointerdown, pointerup, then click, the first two bubbling to the window
\* handlers) adds no body to state.bodies and leaves spawnMode false: the
\* pointerdown and the pointerup of the press leave the registry and spawn
\* mode as they are, and the click turns spawn mode off.
SpawnButtonTurnsOff == [][SpawnButtonPress]_vars

\* the bodies of call r that some pair found overlapping
Collided(r) ==
    UNION {{r.events[k].a, r.events[k].b} :
              k \in {m \in DOMAIN r.events : r.events[m].kind # "gravity"}}

\* call r left position and velocity of body o as they were
Untouched(r, o) ==
    /\ r.post[o].position = r.pre[o].position
    /\ r.post[o].velocity = r.pre[o].velocity

\* the pair e was pushed apart and its velocities were changed
PushedAndStruck(e) ==
    /\ e.wroteA.position # e.readA.position
    /\ e.wroteB.position # e.readB.position
    /\ e.wroteA.velocity # e.readA.velocity
    /\ e.wroteB.velocity # e.readB.velocity

\* the overlapping pairs of call r whose bodies are apart and approach each
\* other: those the collision branch corrects and resolves at any dt
Struck(r) ==
    {k \in DOMAIN r.events :
        /\ r.events[k].kind # "gravity"
        /\ Distance(r.events[k]) # R0
        /\ Comparable(NormalSpeedBefore(r.events[k]), R0)
        /\ RLt(NormalSpeedBefore(r.events[k]), R0)}

\* C30: with the time scale at 0 (dt = 0) a call of updatePhysics changes the
\* position or the velocity of a body only if the body is part of an
\* overlapping pair: the bodies in no overlapping pair keep both exactly,
\* while the overlapping pairs are still pushed apart and still receive the
\* collision impulse.
TimeStoppedOnlyCollisions ==
    \A c \in DOMAIN last :
        last[c].dt = R0 =>
            /\ \A k \in DOMAIN last[c].bodies :
                   last[c].bodies[k] \notin Collided(last[c])
                       => Untouched(last[c], last[c].bodies[k])
            /\ \A k \in Struck(last[c]) : PushedAndStruck(last[c].events[k])

====
